---- MODULE Spec2Model ----
(***************************************************************************)
(* MeetEase (src/Main.py): the file-backed artifact cache.                 *)
(*                                                                         *)
(* Strings are sequences of one-character strings, so that slicing,        *)
(* stripping, regular-expression substitution, JSON serialisation and JSON *)
(* parsing are computed character by character as the Python code does.    *)
(***************************************************************************)
EXTENDS Integers, Sequences, FiniteSets, TLC

VARIABLES
    title, mdate, doc_hash, slug, sid, sid_prev, pc,   \* session identity resolver
    cfg, digest,                                       \* settings fingerprint
    files, dirs, last, touched, wrote, crashed,        \* artifact store on disk
    calls, cached,                                     \* memoized derivation pipeline
    inv, order                                         \* concurrent invocations

pureVars  == <<title, mdate, doc_hash, slug, sid, sid_prev, pc>>
cfgVars   == <<cfg, digest>>
storeVars == <<files, dirs, last, touched, wrote, crashed>>
memoVars  == <<calls, cached>>
raceVars  == <<inv, order>>
vars      == <<pureVars, cfgVars, storeVars, memoVars, raceVars>>

(***************************************************************************)
(* Bounds of the model.                                                    *)
(***************************************************************************)
MaxTitleLen == 4
MaxCalls    == 2

(***************************************************************************)
(* Generic sequence helpers.                                               *)
(***************************************************************************)
SetMin(S) == CHOOSE x \in S : \A y \in S : x <= y
SetMax(S) == CHOOSE x \in S : \A y \in S : x >= y

Take(s, n) == SubSeq(s, 1, IF n < Len(s) THEN n ELSE Len(s))

SeqsUpTo(S, n) == UNION {[1..k -> S] : k \in 0..n}

None == "None"

(***************************************************************************)
(* Character classes of Python's str and re over the modelled alphabet.    *)
(***************************************************************************)
Digits     == {"0", "1", "2", "3", "4", "5", "6", "7", "8", "9"}
\* str.strip() with no argument strips whitespace
WhiteSpace == {" ", "\t", "\n"}
\* re's \w : letters, digits and the underscore
WordChars  == {"a", "b", "h", "i", "A", "B", "_"} \cup Digits
TitleChars == {"a", "B", "_", "-", " ", "!"}
\* [^\w\-] over the title alphabet
NotWordNotHyphen == (TitleChars \cup WhiteSpace) \ (WordChars \cup {"-"})

\* str.lower(), one character
LowerChar(c) == IF c = "A" THEN "a" ELSE IF c = "B" THEN "b" ELSE c
\* str.lower()
Lower(s) == [i \in 1..Len(s) |-> LowerChar(s[i])]

\* str.strip(chars): drop the leading and trailing characters that are in cls
StripChars(s, cls) ==
    LET keep == {i \in 1..Len(s) : s[i] \notin cls}
    IN  IF keep = {} THEN <<>> ELSE SubSeq(s, SetMin(keep), SetMax(keep))

\* re.sub("[cls]+", rep, s): every maximal run of characters of cls becomes rep
ReSubRuns(s, cls, rep) ==
    LET F[i \in 0..Len(s)] ==
            IF i = 0 THEN <<>>
            ELSE IF s[i] \in cls
                 THEN IF i > 1 /\ s[i-1] \in cls THEN F[i-1] ELSE F[i-1] \o rep
                 ELSE Append(F[i-1], s[i])
    IN  F[Len(s)]

DefaultSlug == <<"s", "e", "s", "s", "i", "o", "n">>

\* A plausible slip: the second re.sub is left out, so hyphens are not collapsed.
SlugNoCollapse(s) ==
    LET a == ReSubRuns(Lower(StripChars(s, WhiteSpace)), NotWordNotHyphen, <<"-">>)
        b == StripChars(a, {"-"})
    IN  IF b = <<>> THEN DefaultSlug ELSE b

\* src/Main.py:81-83
_slug(s) ==
    LET a == ReSubRuns(Lower(StripChars(s, WhiteSpace)), NotWordNotHyphen, <<"-">>)
        b == ReSubRuns(StripChars(a, {"-"}), {"-"}, <<"-">>)
    IN  IF b = <<>> THEN DefaultSlug ELSE b

(***************************************************************************)
(* date.isoformat(): YYYY-MM-DD, zero padded.                              *)
(***************************************************************************)
DigitChar(d) == CASE d = 0 -> "0" [] d = 1 -> "1" [] d = 2 -> "2" [] d = 3 -> "3"
                  [] d = 4 -> "4" [] d = 5 -> "5" [] d = 6 -> "6" [] d = 7 -> "7"
                  [] d = 8 -> "8" [] d = 9 -> "9"

RECURSIVE Decimal(_)
\* str(n) for a natural number n
Decimal(n) == IF n < 10 THEN <<DigitChar(n)>>
              ELSE Append(Decimal(n \div 10), DigitChar(n % 10))

RECURSIVE ZeroPad(_, _)
ZeroPad(s, w) == IF Len(s) >= w THEN s ELSE ZeroPad(<<"0">> \o s, w)

isoformat(d) ==
    ZeroPad(Decimal(d.y), 4) \o <<"-">> \o ZeroPad(Decimal(d.m), 2)
        \o <<"-">> \o ZeroPad(Decimal(d.d), 2)

\* doc_hash[:8]
HashPrefixLen == 8

\* A plausible slip: the hash is not truncated.
SessionIdFullHash(t, d, h) == _slug(t) \o <<"-">> \o isoformat(d) \o <<"-">> \o h

\* src/Main.py:85-87
_session_id(t, d, h) ==
    _slug(t) \o <<"-">> \o isoformat(d) \o <<"-">> \o Take(h, HashPrefixLen)

(***************************************************************************)
(* JSON values.  A value is a tagged record: a string, a natural number or *)
(* a dict; a dict holds its (key, value) pairs in insertion order, as a    *)
(* Python dict does, with no key twice.                                    *)
(***************************************************************************)
JStr(s)   == [t |-> "str", v |-> s]
JInt(n)   == [t |-> "int", v |-> n]
JDict(ps) == [t |-> "dict", v |-> ps]

EmptyDict == JDict(<<>>)

\* Code points of the characters that occur in keys (str comparison is by code point).
Ord(c) == CASE c = "\"" -> 34 [] c = "1" -> 49 [] c = "2" -> 50 [] c = "\\" -> 92
            [] c = "_" -> 95 [] c = "a" -> 97 [] c = "b" -> 98 [] c = "c" -> 99
            [] c = "h" -> 104 [] c = "i" -> 105 [] c = "k" -> 107 [] c = "m" -> 109
            [] c = "n" -> 110 [] c = "t" -> 116 [] OTHER -> 0

RECURSIVE StrLess(_, _)
\* a < b for Python strings
StrLess(a, b) ==
    IF a = <<>> THEN b # <<>>
    ELSE IF b = <<>> THEN FALSE
    ELSE IF a[1] # b[1] THEN Ord(a[1]) < Ord(b[1])
    ELSE StrLess(Tail(a), Tail(b))

RECURSIVE InsertByKey(_, _)
InsertByKey(p, ps) ==
    IF ps = <<>> THEN <<p>>
    ELSE IF StrLess(p[1], ps[1][1]) THEN <<p>> \o ps
    ELSE <<ps[1]>> \o InsertByKey(p, Tail(ps))

RECURSIVE SortByKey(_)
\* sorted(dct.items()) of the encoder under sort_keys=True
SortByKey(ps) == IF ps = <<>> THEN <<>> ELSE InsertByKey(ps[1], SortByKey(Tail(ps)))

\* The encoder's escapes of the characters a string may hold here.
EscapeChar(c) == CASE c = "\"" -> <<"\\", "\"">>
                   [] c = "\\" -> <<"\\", "\\">>
                   [] c = "\n" -> <<"\\", "n">>
                   [] c = "\t" -> <<"\\", "t">>
                   [] OTHER    -> <<c>>

RECURSIVE Escape(_)
Escape(s) == IF s = <<>> THEN <<>> ELSE EscapeChar(s[1]) \o Escape(Tail(s))

Quote(s) == <<"\"">> \o Escape(s) \o <<"\"">>

RECURSIVE Spaces(_)
Spaces(n) == IF n = 0 THEN <<>> ELSE <<" ">> \o Spaces(n - 1)

RECURSIVE Encode(_, _, _, _, _)
RECURSIVE EncodeItems(_, _, _, _, _)
\* the items of a non-empty dict, each "key": value, separated as the encoder does
EncodeItems(ps, pretty, indent, level, sortKeys) ==
    LET sep  == IF pretty THEN <<",", "\n">> \o Spaces(indent * level)
                ELSE <<",", " ">>
        item == Quote(ps[1][1]) \o <<":", " ">>
                    \o Encode(ps[1][2], pretty, indent, level, sortKeys)
    IN  IF Len(ps) = 1 THEN item
        ELSE item \o sep \o EncodeItems(Tail(ps), pretty, indent, level, sortKeys)

\* json's encoder.  pretty = FALSE is indent=None: one line, separators ", " and
\* ": ".  pretty = TRUE is a number indent: every item on a line of its own,
\* indented by indent spaces per nesting level, separators "," and ": ".
Encode(val, pretty, indent, level, sortKeys) ==
    CASE val.t = "str" -> Quote(val.v)
      [] val.t = "int" -> Decimal(val.v)
      [] val.t = "dict" ->
            IF val.v = <<>> THEN <<"{", "}">>
            ELSE LET ps == IF sortKeys THEN SortByKey(val.v) ELSE val.v
                 IN  IF pretty
                     THEN <<"{", "\n">> \o Spaces(indent * (level + 1))
                            \o EncodeItems(ps, pretty, indent, level + 1, sortKeys)
                            \o <<"\n">> \o Spaces(indent * level) \o <<"}">>
                     ELSE <<"{">> \o EncodeItems(ps, pretty, indent, level + 1, sortKeys)
                            \o <<"}">>

\* indent=2 of src/Main.py:107
JsonDumpIndent == 2

\* json.dump(obj, f, ensure_ascii=False, indent=2)  (src/Main.py:107)
json_dump(obj) == Encode(obj, TRUE, JsonDumpIndent, 0, FALSE)

\* A plausible slip: the keys are serialised in insertion order.
json_dumps_unsorted(d) == Encode(d, FALSE, 0, 0, FALSE)

\* json.dumps(d, sort_keys=True)  (src/Main.py:129)
json_dumps(d) == Encode(d, FALSE, 0, 0, TRUE)

(***************************************************************************)
(* json's decoder, strict mode.  A result is [ok, val, nxt]: the value and *)
(* the index after it, or ok = FALSE for a JSONDecodeError.                *)
(***************************************************************************)
JsonWs   == {" ", "\t", "\n", "\r"}
Fail     == [ok |-> FALSE, val |-> None, nxt |-> 0]
Ok(v, n) == [ok |-> TRUE, val |-> v, nxt |-> n]

RECURSIVE SkipWs(_, _)
SkipWs(s, i) == IF i <= Len(s) /\ s[i] \in JsonWs THEN SkipWs(s, i + 1) ELSE i

\* The character an escape \c stands for; None for an escape the decoder rejects.
Unescape(c) == CASE c = "\"" -> "\"" [] c = "\\" -> "\\" [] c = "/" -> "/"
                 [] c = "n" -> "\n" [] c = "t" -> "\t" [] OTHER -> None

RECURSIVE ScanString(_, _, _)
\* the characters of a string after its opening quote, from index i
ScanString(s, i, acc) ==
    IF i > Len(s) THEN Fail
    ELSE IF s[i] = "\"" THEN Ok(acc, i + 1)
    ELSE IF s[i] = "\\"
         THEN IF i + 1 > Len(s) \/ Unescape(s[i+1]) = None THEN Fail
              ELSE ScanString(s, i + 2, Append(acc, Unescape(s[i+1])))
    ELSE IF s[i] \in {"\n", "\t", "\r"} THEN Fail
    ELSE ScanString(s, i + 1, Append(acc, s[i]))

DigitVal(c) == CHOOSE d \in 0..9 : DigitChar(d) = c

RECURSIVE ScanDigits(_, _, _)
ScanDigits(s, i, acc) ==
    IF i <= Len(s) /\ s[i] \in Digits
    THEN ScanDigits(s, i + 1, acc * 10 + DigitVal(s[i]))
    ELSE Ok(JInt(acc), i)

\* a dict assignment d[k] = v: a repeated key keeps its place and takes the new value
DictSet(ps, k, v) ==
    IF \E j \in 1..Len(ps) : ps[j][1] = k
    THEN [j \in 1..Len(ps) |-> IF ps[j][1] = k THEN <<k, v>> ELSE ps[j]]
    ELSE Append(ps, <<k, v>>)

RECURSIVE ParseValue(_, _)
RECURSIVE ParseMembers(_, _, _)
\* the members of an object from index i, which holds the opening quote of a key
ParseMembers(s, i, acc) ==
    IF i > Len(s) \/ s[i] # "\"" THEN Fail
    ELSE LET k == ScanString(s, i + 1, <<>>)
         IN  IF ~k.ok THEN Fail
             ELSE LET c == SkipWs(s, k.nxt)
                  IN  IF c > Len(s) \/ s[c] # ":" THEN Fail
                      ELSE LET v == ParseValue(s, SkipWs(s, c + 1))
                           IN  IF ~v.ok THEN Fail
                               ELSE LET e   == SkipWs(s, v.nxt)
                                        now == DictSet(acc, k.val, v.val)
                                    IN  IF e > Len(s) THEN Fail
                                        ELSE IF s[e] = "}" THEN Ok(JDict(now), e + 1)
                                        ELSE IF s[e] = ","
                                             THEN ParseMembers(s, SkipWs(s, e + 1), now)
                                        ELSE Fail

ParseValue(s, i) ==
    IF i > Len(s) THEN Fail
    ELSE IF s[i] = "\"" THEN LET r == ScanString(s, i + 1, <<>>)
                             IN  IF r.ok THEN Ok(JStr(r.val), r.nxt) ELSE Fail
    ELSE IF s[i] = "0" THEN Ok(JInt(0), i + 1)
    ELSE IF s[i] \in Digits THEN ScanDigits(s, i, 0)
    ELSE IF s[i] = "{"
         THEN LET j == SkipWs(s, i + 1)
              IN  IF j <= Len(s) /\ s[j] = "}" THEN Ok(EmptyDict, j + 1)
                  ELSE ParseMembers(s, j, <<>>)
    ELSE Fail

\* json.load(f): one value, surrounded by whitespace only
json_load(s) ==
    LET r == ParseValue(s, SkipWs(s, 1))
    IN  IF r.ok /\ SkipWs(s, r.nxt) > Len(s) THEN r ELSE Fail

(***************************************************************************)
(* hashlib.sha256(...).hexdigest().  The digest is not computed: it is the *)
(* hashed text under a tag, that is, SHA-256 taken as collision free.      *)
(***************************************************************************)
sha256_hex(s) == <<"#">> \o s

\* src/Main.py:128-130
settings_hash(d) == sha256_hex(json_dumps(d))

(***************************************************************************)
(* Idle values of the variable groups a specification does not use.        *)
(***************************************************************************)
\* Python's None as a value, and how a call ends: it returns a value or raises.
NoneVal   == [t |-> "none", v |-> <<>>]
Return(v) == [exc |-> "none", val |-> v]
Raise(e)  == [exc |-> e, val |-> NoneVal]

\* The last operation on the store: its name, session, artifact name, argument
\* and how it ended.
Op(op, s, n, arg, out) == [op |-> op, s |-> s, n |-> n, arg |-> arg, out |-> out]
NoOp == Op("none", "", <<>>, NoneVal, Return(NoneVal))

PureIdle  == /\ title = <<>> /\ mdate = [y |-> 1, m |-> 1, d |-> 1] /\ doc_hash = <<>>
             /\ slug = <<>> /\ sid = <<>> /\ sid_prev = <<>>
CfgIdle   == cfg = EmptyDict /\ digest = <<>>
StoreIdle == /\ files = <<>> /\ dirs = {} /\ last = NoOp /\ touched = {}
             /\ wrote = <<>> /\ crashed = FALSE
MemoIdle  == calls = <<>> /\ cached = <<>>
RaceIdle  == inv = <<>> /\ order = <<>>

(***************************************************************************)
(* Slugs: _slug applied to every title over TitleChars up to MaxTitleLen.  *)
(***************************************************************************)
Titles == SeqsUpTo(TitleChars, MaxTitleLen)

InitSlug ==
    /\ title \in Titles
    /\ mdate = [y |-> 1, m |-> 1, d |-> 1] /\ doc_hash = <<>>
    /\ slug = <<>> /\ sid = <<>> /\ sid_prev = <<>>
    /\ pc = "start"
    /\ CfgIdle /\ StoreIdle /\ MemoIdle /\ RaceIdle

Slugify ==
    /\ pc = "start"
    /\ slug' = _slug(title)
    /\ pc' = "slugged"
    /\ UNCHANGED <<title, mdate, doc_hash, sid, sid_prev>>
    /\ UNCHANGED <<cfgVars, storeVars, memoVars, raceVars>>

NextSlug == Slugify

SpecSlug == InitSlug /\ [][NextSlug]_vars

(***************************************************************************)
(* Session ids: _session_id on a title, a date and a content hash; the     *)
(* process may restart (all memory lost) and resolve the same inputs again.*)
(***************************************************************************)
SessionTitles == { <<"B", "!">>, <<"b">>, <<" ", "b", "-">>, <<"a", " ", "B">>,
                   <<"a", "!", "!", "b">>, <<"a", "_", "b">>, <<"!", "!">>, <<>> }

Dates == { [y |-> 2024, m |-> 1, d |-> 5], [y |-> 987, m |-> 11, d |-> 25] }

\* Content hashes (hex digests, cut to ten characters): the first two agree on
\* their first eight characters, the third differs at the eighth.
Hashes == { <<"b", "a", "7", "8", "1", "6", "b", "f", "8", "f">>,
            <<"b", "a", "7", "8", "1", "6", "b", "f", "0", "1">>,
            <<"b", "a", "7", "8", "1", "6", "b", "e", "8", "f">> }

InitSession ==
    /\ title \in SessionTitles /\ mdate \in Dates /\ doc_hash \in Hashes
    /\ slug = <<>> /\ sid = <<>> /\ sid_prev = <<>>
    /\ pc = "start"
    /\ CfgIdle /\ StoreIdle /\ MemoIdle /\ RaceIdle

ResolveSessionId ==
    /\ pc = "start"
    /\ sid' = _session_id(title, mdate, doc_hash)
    /\ pc' = "resolved"
    /\ UNCHANGED <<title, mdate, doc_hash, slug, sid_prev>>
    /\ UNCHANGED <<cfgVars, storeVars, memoVars, raceVars>>

\* A process restart: nothing in memory survives but what the caller kept (the
\* id it was given) and supplies again (the inputs).
Restart ==
    /\ pc = "resolved"
    /\ sid_prev' = sid
    /\ sid' = <<>>
    /\ pc' = "start"
    /\ UNCHANGED <<title, mdate, doc_hash, slug>>
    /\ UNCHANGED <<cfgVars, storeVars, memoVars, raceVars>>

NextSession == ResolveSessionId \/ Restart

SpecSession == InitSession /\ [][NextSession]_vars

(***************************************************************************)
(* Settings fingerprints: settings_hash on every configuration of up to    *)
(* three fields, in every insertion order.                                 *)
(***************************************************************************)
CfgKeys == { <<"a">>, <<"b">>, <<"a", "b">> }
CfgVals == { JStr(<<"1">>), JInt(1), JInt(12) }

DistinctKeys(ps) == \A i, j \in 1..Len(ps) : i # j => ps[i][1] # ps[j][1]

Configs == { JDict(ps) : ps \in { q \in SeqsUpTo(CfgKeys \X CfgVals, Cardinality(CfgKeys)) :
                                      DistinctKeys(q) } }

Items(d) == { d.v[i] : i \in 1..Len(d.v) }

InitDigest ==
    /\ cfg \in Configs
    /\ digest = <<>>
    /\ pc = "start"
    /\ PureIdle /\ StoreIdle /\ MemoIdle /\ RaceIdle

SettingsHash ==
    /\ pc = "start"
    /\ digest' = settings_hash(cfg)
    /\ pc' = "hashed"
    /\ UNCHANGED <<title, mdate, doc_hash, slug, sid, sid_prev, cfg>>
    /\ UNCHANGED <<storeVars, memoVars, raceVars>>

NextDigest == SettingsHash

SpecDigest == InitDigest /\ [][NextDigest]_vars

(***************************************************************************)
(* The artifact store.  files maps each existing file, <<session, name>>   *)
(* under CACHE_DIR, to its content; dirs holds the sessions whose directory*)
(* exists.                                                                 *)
(***************************************************************************)
isfile(fs, p) == p \in DOMAIN fs

\* open(path, "w") and f.write(content): the file is created or truncated
FileWrite(fs, p, content) ==
    [q \in DOMAIN fs \cup {p} |-> IF q = p THEN content ELSE fs[q]]

\* os.makedirs(d, exist_ok=True)
makedirs(ds, d) == ds \cup {d}

\* src/Main.py:89-92
_sess_dir(ds, session_id) == makedirs(ds, session_id)

\* A plausible slip: open(path, "x"), which leaves an existing file as it is.
WriteTextOnce(fs, ds, p, text) ==
    [files |-> IF isfile(fs, p) THEN fs
               ELSE FileWrite(fs, p, IF text.t = "none" THEN <<>> ELSE text.v),
     dirs  |-> makedirs(ds, p[1])]

\* src/Main.py:94-97 (text or "": None is written as the empty string)
_write_text(fs, ds, p, text) ==
    [files |-> FileWrite(fs, p, IF text.t = "none" \/ text.v = <<>> THEN <<>> ELSE text.v),
     dirs  |-> makedirs(ds, p[1])]

\* A plausible slip: no os.path.isfile guard, so open() raises on a missing file.
ReadTextUnguarded(fs, p) ==
    IF ~isfile(fs, p) THEN Raise("FileNotFoundError") ELSE Return(JStr(fs[p]))

\* src/Main.py:99-102
_read_text(fs, p) ==
    IF ~isfile(fs, p) THEN Return(JStr(<<>>)) ELSE Return(JStr(fs[p]))

\* A plausible slip: open(path, "a"), which appends to an existing file.
WriteJsonAppend(fs, ds, p, obj) ==
    [files |-> FileWrite(fs, p, (IF isfile(fs, p) THEN fs[p] ELSE <<>>) \o json_dump(obj)),
     dirs  |-> makedirs(ds, p[1])]

\* src/Main.py:104-107
_write_json(fs, ds, p, obj) ==
    [files |-> FileWrite(fs, p, json_dump(obj)),
     dirs  |-> makedirs(ds, p[1])]

\* src/Main.py:109-112 (json.load raises json.JSONDecodeError on malformed text)
_read_json(fs, p) ==
    IF ~isfile(fs, p) THEN Return(EmptyDict)
    ELSE LET r == json_load(fs[p])
         IN  IF r.ok THEN Return(r.val) ELSE Raise("JSONDecodeError")

Sessions == {"s1", "s2"}
Names    == { <<"s", "u", "m", "m", "a", "r", "y">> }

\* Text arguments: None, the empty string, a word, and a text that is valid JSON.
Texts == { NoneVal, JStr(<<>>), JStr(<<"h", "i">>), JStr(<<"{", "}">>) }

\* Records: up to two fields; a key and a value hold characters the encoder escapes.
RecKeys == { <<"t">>, <<"\\", "n">> }
RecVals == { JStr(<<"h", "\"">>), JInt(12) }
Records == { JDict(ps) : ps \in { q \in SeqsUpTo(RecKeys \X RecVals, Cardinality(RecKeys)) :
                                      DistinctKeys(q) } }

\* wrote without path p: the file at p no longer holds a completely written record
Forget(w, p) == [q \in DOMAIN w \ {p} |-> w[q]]

InitStore ==
    /\ files = <<>> /\ dirs = {} /\ last = NoOp
    /\ touched = {} /\ wrote = <<>> /\ crashed = FALSE
    /\ pc = "store"
    /\ PureIdle /\ CfgIdle /\ MemoIdle /\ RaceIdle

WriteText(s, n, text) ==
    LET r == _write_text(files, dirs, <<s, n>>, text)
    IN  /\ files' = r.files
        /\ dirs' = r.dirs
        /\ last' = Op("write_text", s, n, text, Return(NoneVal))
        /\ touched' = touched \cup {<<s, n>>}
        /\ wrote' = Forget(wrote, <<s, n>>)
        /\ UNCHANGED <<crashed, pc, pureVars, cfgVars, memoVars, raceVars>>

ReadText(s, n) ==
    /\ last' = Op("read_text", s, n, NoneVal, _read_text(files, <<s, n>>))
    /\ UNCHANGED <<files, dirs, touched, wrote, crashed>>
    /\ UNCHANGED <<pc, pureVars, cfgVars, memoVars, raceVars>>

WriteRecord(s, n, obj) ==
    LET r == _write_json(files, dirs, <<s, n>>, obj)
    IN  /\ files' = r.files
        /\ dirs' = r.dirs
        /\ last' = Op("write_record", s, n, obj, Return(NoneVal))
        /\ touched' = touched \cup {<<s, n>>}
        /\ wrote' = [q \in DOMAIN wrote \cup {<<s, n>>} |->
                        IF q = <<s, n>> THEN obj ELSE wrote[q]]
        /\ UNCHANGED <<crashed, pc, pureVars, cfgVars, memoVars, raceVars>>

ReadRecord(s, n) ==
    /\ last' = Op("read_record", s, n, NoneVal, _read_json(files, <<s, n>>))
    /\ UNCHANGED <<files, dirs, touched, wrote, crashed>>
    /\ UNCHANGED <<pc, pureVars, cfgVars, memoVars, raceVars>>

SessDir(s) ==
    /\ dirs' = _sess_dir(dirs, s)
    /\ last' = Op("sess_dir", s, <<>>, NoneVal, Return(NoneVal))
    /\ UNCHANGED <<files, touched, wrote, crashed>>
    /\ UNCHANGED <<pc, pureVars, cfgVars, memoVars, raceVars>>

\* Every strict prefix of every record's dump: what a write that was cut short
\* can leave in the file.
PartialDumps ==
    UNION { { Take(json_dump(obj), k) : k \in 0..(Len(json_dump(obj)) - 1) } : obj \in Records }

\* The process dies inside _write_json (src/Main.py:104-107): the directory is
\* made, open(path, "w") has truncated the file, and only a prefix of the dump
\* reached it.  It happens at most once in a run.
CrashInWriteRecord(s, n, part) ==
    /\ ~crashed
    /\ crashed' = TRUE
    /\ files' = FileWrite(files, <<s, n>>, part)
    /\ dirs' = makedirs(dirs, s)
    /\ last' = Op("crash", s, n, JStr(part), Raise("killed"))
    /\ touched' = touched \cup {<<s, n>>}
    /\ wrote' = Forget(wrote, <<s, n>>)
    /\ UNCHANGED <<pc, pureVars, cfgVars, memoVars, raceVars>>

TextStep(SS) ==
    \/ \E s \in SS, n \in Names, text \in Texts : WriteText(s, n, text)
    \/ \E s \in SS, n \in Names : ReadText(s, n)

RecordStep(SS) ==
    \/ \E s \in SS, n \in Names, obj \in Records : WriteRecord(s, n, obj)
    \/ \E s \in SS, n \in Names : ReadRecord(s, n)
    \/ \E s \in SS : SessDir(s)

Next == TextStep(Sessions) \/ RecordStep(Sessions)

Spec == InitStore /\ [][Next]_vars

\* The record store with a crash: one session is enough to leave and to read a
\* file that was cut short.
CrashSessions == {"s1"}

NextCrash ==
    \/ RecordStep(CrashSessions)
    \/ \E s \in CrashSessions, n \in Names, part \in PartialDumps :
          CrashInWriteRecord(s, n, part)

SpecCrash == InitStore /\ [][NextCrash]_vars

(***************************************************************************)
(* The memoized derivation pipeline, get_or_compute of the specification's *)
(* section 4.4, over _read_text/_write_text (text artifacts) and           *)
(* _read_json/_write_json (records).  compute_fn is the caller's: each     *)
(* invocation returns any of its possible results.                         *)
(***************************************************************************)
\* key = artifact_name + ":" + digest_settings(settings)
ArtifactKey(name, settings) == name \o <<":">> \o settings_hash(settings)

\* The triple a guarantee is stated for; the settings count as their fields.
Triple(s, name, settings) == <<s, name, Items(settings)>>

Count(c, t) == IF t \in DOMAIN c THEN c[t] ELSE 0
Bump(c, t)  == [u \in DOMAIN c \cup {t} |-> IF u = t THEN Count(c, t) + 1 ELSE c[u]]
\* the output of the first call on a triple
First(f, t, out) == [u \in DOMAIN f \cup {t} |-> IF u \in DOMAIN f THEN f[u] ELSE out]

\* "yields a non-empty result": a non-empty string, a non-empty mapping
NonEmpty(val) == val.v # <<>>

MemoSessions == {"s1"}
TextName     == <<"o", "c", "r">>
RecordName   == <<"s", "u", "m">>

\* Settings: SetA and SetA2 hold the same fields in another order; SetB differs
\* from them in one field's value (the number 1 for the string "1").
SetA  == JDict(<< <<<<"a">>, JInt(12)>>, <<<<"b">>, JStr(<<"1">>)>> >>)
SetA2 == JDict(<< <<<<"b">>, JStr(<<"1">>)>>, <<<<"a">>, JInt(12)>> >>)
SetB  == JDict(<< <<<<"a">>, JInt(12)>>, <<<<"b">>, JInt(1)>> >>)
MemoSettings == {SetA, SetA2, SetB}

TextResults   == { JStr(<<>>), JStr(<<"x">>), JStr(<<"y">>) }
RecordResults == { EmptyDict, JDict(<< <<<<"t">>, JStr(<<"h", "\"">>)>> >>) }

InitMemo ==
    /\ files = <<>> /\ dirs = {} /\ last = NoOp
    /\ touched = {} /\ wrote = <<>> /\ crashed = FALSE
    /\ calls = <<>> /\ cached = <<>>
    /\ pc = "memo"
    /\ PureIdle /\ CfgIdle /\ RaceIdle

\* get_or_compute for a text artifact; v is what compute_fn returns if invoked.
GetOrComputeText(s, name, settings, v) ==
    LET p == <<s, ArtifactKey(name, settings)>>
        t == Triple(s, name, settings)
        r == _read_text(files, p)
    IN  IF NonEmpty(r.val)
        THEN /\ last' = Op("get_or_compute", s, name, settings, r)
             /\ cached' = First(cached, t, r)
             /\ UNCHANGED <<files, dirs, touched, calls>>
             /\ UNCHANGED <<wrote, crashed, pc, pureVars, cfgVars, raceVars>>
        ELSE LET w == _write_text(files, dirs, p, v)
             IN  /\ Count(calls, t) < MaxCalls
                 /\ calls' = Bump(calls, t)
                 /\ files' = w.files
                 /\ dirs' = w.dirs
                 /\ touched' = touched \cup {p}
                 /\ last' = Op("get_or_compute", s, name, settings, Return(v))
                 /\ cached' = First(cached, t, Return(v))
                 /\ UNCHANGED <<wrote, crashed, pc, pureVars, cfgVars, raceVars>>

\* get_or_compute for a record; a read that raises ends the call.
GetOrComputeRecord(s, name, settings, v) ==
    LET p == <<s, ArtifactKey(name, settings)>>
        t == Triple(s, name, settings)
        r == _read_json(files, p)
    IN  IF r.exc # "none" \/ NonEmpty(r.val)
        THEN /\ last' = Op("get_or_compute", s, name, settings, r)
             /\ cached' = First(cached, t, r)
             /\ UNCHANGED <<files, dirs, touched, calls>>
             /\ UNCHANGED <<wrote, crashed, pc, pureVars, cfgVars, raceVars>>
        ELSE LET w == _write_json(files, dirs, p, v)
             IN  /\ Count(calls, t) < MaxCalls
                 /\ calls' = Bump(calls, t)
                 /\ files' = w.files
                 /\ dirs' = w.dirs
                 /\ touched' = touched \cup {p}
                 /\ last' = Op("get_or_compute", s, name, settings, Return(v))
                 /\ cached' = First(cached, t, Return(v))
                 /\ UNCHANGED <<wrote, crashed, pc, pureVars, cfgVars, raceVars>>

NextMemo ==
    \/ \E s \in MemoSessions, settings \in MemoSettings, v \in TextResults :
          GetOrComputeText(s, TextName, settings, v)
    \/ \E s \in MemoSessions, settings \in MemoSettings, v \in RecordResults :
          GetOrComputeRecord(s, RecordName, settings, v)

SpecMemo == InitMemo /\ [][NextMemo]_vars

(***************************************************************************)
(* Two invocations of get_or_compute (text artifacts) running at once, as  *)
(* two browser tabs do: the read, the computation and the write of each    *)
(* are separate steps, and nothing locks the key between them.             *)
(***************************************************************************)
Procs == {1, 2}

InvPath(i)   == <<i.s, ArtifactKey(i.name, i.settings)>>
InvTriple(i) == Triple(i.s, i.name, i.settings)

InitRace ==
    /\ files = <<>> /\ dirs = {} /\ last = NoOp
    /\ touched = {} /\ wrote = <<>> /\ crashed = FALSE
    /\ calls = <<>> /\ cached = <<>>
    /\ inv \in [Procs -> { [pc |-> "check", s |-> s, name |-> TextName, settings |-> st,
                            read |-> Return(NoneVal), val |-> NoneVal, out |-> Return(NoneVal)] :
                            s \in MemoSessions, st \in MemoSettings }]
    /\ order = <<>>
    /\ pc = "race"
    /\ PureIdle /\ CfgIdle

\* step 2 of get_or_compute: read the key; a non-empty result is returned
Check(p) ==
    LET r == _read_text(files, InvPath(inv[p]))
    IN  /\ inv[p].pc = "check"
        /\ inv' = [inv EXCEPT ![p].read = r,
                              ![p].pc = IF NonEmpty(r.val) THEN "done" ELSE "compute",
                              ![p].out = IF NonEmpty(r.val) THEN r ELSE @]
        /\ order' = Append(order, <<p, "check">>)
        /\ UNCHANGED <<storeVars, memoVars, pc, pureVars, cfgVars>>

\* step 3: compute_fn runs and returns v
Compute(p, v) ==
    /\ inv[p].pc = "compute"
    /\ calls' = Bump(calls, InvTriple(inv[p]))
    /\ inv' = [inv EXCEPT ![p].val = v, ![p].pc = "write"]
    /\ order' = Append(order, <<p, "compute">>)
    /\ UNCHANGED <<storeVars, cached, pc, pureVars, cfgVars>>

\* step 3, continued: the result is persisted under the key and returned
Persist(p) ==
    LET w == _write_text(files, dirs, InvPath(inv[p]), inv[p].val)
    IN  /\ inv[p].pc = "write"
        /\ files' = w.files
        /\ dirs' = w.dirs
        /\ touched' = touched \cup {InvPath(inv[p])}
        /\ inv' = [inv EXCEPT ![p].pc = "done", ![p].out = Return(inv[p].val)]
        /\ order' = Append(order, <<p, "write">>)
        /\ UNCHANGED <<last, wrote, crashed, memoVars, pc, pureVars, cfgVars>>

NextRace ==
    \/ \E p \in Procs : Check(p)
    \/ \E p \in Procs, v \in TextResults : Compute(p, v)
    \/ \E p \in Procs : Persist(p)

SpecRace == InitRace /\ [][NextRace]_vars

(***************************************************************************)
(*                              The claims                                 *)
(***************************************************************************)
LastPath   == <<last.s, last.n>>
LastTriple == Triple(last.s, last.n, last.arg)

\* C1 (as stated): on one (session, artifact name, settings) triple, sequential
\* get_or_compute calls invoke compute_fn at most once in total, and every call
\* returns what the first call returned, whatever compute_fn returns (the empty
\* string and the empty mapping included).
C1_AtMostOnce ==
    /\ \A t \in DOMAIN calls : calls[t] <= 1
    /\ last.op = "get_or_compute" => last.out = cached[LastTriple]

\* C1, where it does hold: a triple whose first result was non-empty is computed
\* once and always returns that result.
C1_NonEmptyOnce ==
    \A t \in DOMAIN calls :
        NonEmpty(cached[t].val) =>
            /\ calls[t] = 1
            /\ (last.op = "get_or_compute" /\ LastTriple = t) => last.out = cached[t]

\* C2 (as stated): once an artifact is written under (session, key), no later
\* operation on that key changes its stored content.
C2_Immutable ==
    [][\A p \in DOMAIN files : p \in DOMAIN files' /\ files'[p] = files[p]]_vars

\* C3 (as stated): reading a record whose file exists and holds malformed content
\* ends in the error CacheCorruption (and so returns no mapping at all).
C3_CacheCorruption ==
    (/\ last.op = "read_record"
     /\ isfile(files, LastPath)
     /\ ~json_load(files[LastPath]).ok)
        => last.out = Raise("CacheCorruption")

\* C3, what the code does there: the read raises (json.JSONDecodeError) and
\* returns nothing, the empty mapping included.
C3_RaisesDecodeError ==
    (/\ last.op = "read_record"
     /\ isfile(files, LastPath)
     /\ ~json_load(files[LastPath]).ok)
        => last.out = Raise("JSONDecodeError")

\* C4: read_record on (s, n), while the file holds what the latest
\* write_record(s, n, r) wrote, returns exactly r (same fields, same values, same
\* order), whatever the directory and the file held before that write.
C4_RoundTrip ==
    (last.op = "read_record" /\ LastPath \in DOMAIN wrote)
        => last.out = Return(wrote[LastPath])

\* C4 witness: a record with two fields whose key and value need escaping is read
\* back right after it was written.
C4_Witness ==
    /\ last.op = "read_record"
    /\ LastPath \in DOMAIN wrote
    /\ wrote[LastPath] = JDict(<< <<<<"\\", "n">>, JStr(<<"h", "\"">>)>>,
                                  <<<<"t">>, JInt(12)>> >>)
    /\ last.out = Return(wrote[LastPath])

\* C5: a read_text or read_record of an artifact never written under
\* (session, name) raises nothing, returns the empty string, respectively the
\* empty mapping, and leaves the files and the directories as they were.
C5_MissingRead ==
    [][ (last'.op \in {"read_text", "read_record"} /\ <<last'.s, last'.n>> \notin touched)
          => /\ last'.out = IF last'.op = "read_text" THEN Return(JStr(<<>>))
                            ELSE Return(EmptyDict)
             /\ files' = files
             /\ dirs' = dirs ]_vars

\* C5 witness: read_text on a key never written, in a session whose directory exists.
C5_Witness ==
    /\ last.op = "read_text"
    /\ LastPath \notin touched
    /\ last.s \in dirs
    /\ last.out = Return(JStr(<<>>))

\* C6 (as stated): once an artifact is cached for (session, name, S), a
\* get_or_compute call on the same session and name with settings that differ
\* from S in a field (and are not cached themselves) uses another key, invokes
\* compute_fn, and leaves the artifact of S in place and unchanged; a call with
\* the fields of S invokes nothing.
C6_KeySensitivity ==
    [][ last'.op = "get_or_compute" =>
          \A t \in DOMAIN calls :
              (t[1] = last'.s /\ t[2] = last'.n) =>
                  IF t[3] # Items(last'.arg)
                  THEN Triple(last'.s, last'.n, last'.arg) \notin DOMAIN calls =>
                          /\ Count(calls', Triple(last'.s, last'.n, last'.arg)) = 1
                          /\ \A st \in MemoSettings :
                                Items(st) = t[3] =>
                                   LET p == <<t[1], ArtifactKey(t[2], st)>>
                                   IN  /\ ArtifactKey(t[2], st)
                                             # ArtifactKey(last'.n, last'.arg)
                                       /\ p \in DOMAIN files
                                       /\ p \in DOMAIN files'
                                       /\ files'[p] = files[p]
                  ELSE calls' = calls ]_vars

\* C6, the part that holds: a call with settings not yet cached computes under a
\* key of its own and leaves every stored artifact as it was.
C6_NewSettingsCompute ==
    [][ (/\ last'.op = "get_or_compute"
         /\ Triple(last'.s, last'.n, last'.arg) \notin DOMAIN calls)
          => /\ Count(calls', Triple(last'.s, last'.n, last'.arg)) = 1
             /\ <<last'.s, ArtifactKey(last'.n, last'.arg)>> \notin DOMAIN files
             /\ \A p \in DOMAIN files : files'[p] = files[p] ]_vars

\* C7: settings_hash depends only on the set of (key, value) pairs: every
\* configuration holding the pairs of cfg, in any order, has the digest of cfg.
C7_OrderIndependent ==
    pc = "hashed" =>
        \A c \in Configs : Items(c) = Items(cfg) => settings_hash(c) = digest

\* C7 witness: three fields, inserted in an order that is not the sorted one.
C7_Witness ==
    /\ pc = "hashed"
    /\ Len(cfg.v) = 3
    /\ cfg.v # SortByKey(cfg.v)
    /\ digest = settings_hash(JDict(SortByKey(cfg.v)))

\* Configurations that differ in a pair have different digests.
DigestSeparates ==
    pc = "hashed" =>
        \A c \in Configs : Items(c) # Items(cfg) => settings_hash(c) # digest

\* The slug as the specification words it: the words of the lowercased title
\* (the maximal runs of word characters), joined by single hyphens; the default
\* token when the title holds no word.
SlugOfWords(t) ==
    LET s == Lower(t)
        G[i \in 0..Len(s)] ==
            IF i = 0 THEN <<>>
            ELSE IF s[i] \notin WordChars THEN G[i-1]
            ELSE IF i > 1 /\ s[i-1] \notin WordChars /\ G[i-1] # <<>>
                 THEN G[i-1] \o <<"-", s[i]>>
                 ELSE Append(G[i-1], s[i])
    IN  IF G[Len(s)] = <<>> THEN DefaultSlug ELSE G[Len(s)]

\* string.punctuation over the title alphabet
Punctuation == {"_", "-", "!"}

\* C8 (as stated): the slug is the lowercased, trimmed title with every run of
\* non-word characters turned into one hyphen and the outer hyphens stripped,
\* and every empty or all-punctuation title gets the default token.
C8_AllPunctuationDefault ==
    pc = "slugged" =>
        /\ slug = SlugOfWords(title)
        /\ (\A i \in 1..Len(title) : title[i] \in Punctuation \cup WhiteSpace)
              => slug = DefaultSlug

\* C8 (amended): the same, with the default token for every title that holds no
\* word character; the underscore is a word character and stays in the slug.
C8_Slug ==
    pc = "slugged" =>
        /\ slug = SlugOfWords(title)
        /\ (\A i \in 1..Len(title) : title[i] \notin WordChars) => slug = DefaultSlug
        /\ (title # <<>> /\ \A i \in 1..Len(title) : title[i] = "_") => slug = title

\* C8 witness: case, punctuation and spacing between two words, one an underscore.
C8_Witness ==
    /\ pc = "slugged"
    /\ title = <<"B", "!", " ", "_">>
    /\ slug = <<"b", "-", "_">>

IsoOf(d) == IF d = [y |-> 2024, m |-> 1, d |-> 5]
            THEN <<"2", "0", "2", "4", "-", "0", "1", "-", "0", "5">>
            ELSE <<"0", "9", "8", "7", "-", "1", "1", "-", "2", "5">>

First8(h) == [i \in 1..8 |-> h[i]]

\* C9: the id is slug(title), "-", the ISO date, "-", the first 8 characters of
\* the content hash; resolving the same inputs after a restart gives the same
\* id; inputs that agree on slug, date and those 8 characters get the same id.
C9_SessionId ==
    pc = "resolved" =>
        /\ sid = _slug(title) \o <<"-">> \o IsoOf(mdate) \o <<"-">> \o First8(doc_hash)
        /\ sid_prev # <<>> => sid = sid_prev
        /\ \A t \in SessionTitles, h \in Hashes :
              (_slug(t) = _slug(title) /\ First8(h) = First8(doc_hash))
                  => _session_id(t, mdate, h) = sid

\* C9 witness: resolved again after a restart, for a title and a hash that have
\* another title and another hash colliding with them.
C9_Witness ==
    /\ pc = "resolved"
    /\ sid_prev # <<>>
    /\ title = <<"B", "!">>
    /\ doc_hash = <<"b", "a", "7", "8", "1", "6", "b", "f", "8", "f">>
    /\ sid = <<"b", "-", "2", "0", "2", "4", "-", "0", "1", "-", "0", "5", "-",
               "b", "a", "7", "8", "1", "6", "b", "f">>

Positions(kind) == {i \in 1..Len(order) : order[i][2] = kind}

\* both invocations are on one key, both have returned, and both reads came
\* before either write
RacedOnOneKey ==
    /\ \A p \in Procs : inv[p].pc = "done"
    /\ InvPath(inv[1]) = InvPath(inv[2])
    /\ Cardinality(Positions("check")) = 2
    /\ \A i \in Positions("check"), j \in Positions("write") : i < j

LastWriter == order[SetMax(Positions("write"))][1]

====
